---------------------------- MODULE Spec2Model ----------------------------
(* ts-spreadsheet: the dependency compiler (compileExecutionOrder), the    *)
(* row evaluator (evaluateRow) and the sequence driver (processRows) of    *)
(* engine.ts, as a state machine.  One action per loop iteration or call   *)
(* of the source; the recursion of visit() is an explicit stack of frames; *)
(* row objects live in a heap so that prevRow / rows[i] aliasing is kept.  *)
EXTENDS Integers, Sequences, FiniteSets, TLC

(***************************************************************************)
(* Bounds of the model                                                     *)
(***************************************************************************)
MaxEdges == 3
MaxRows == 2
MaxInput == 1
MaxCalls == 2
MaxScenarioInput == 5
MaxScenarioRows == 4

(* The schemas explored: one, two and three columns.  Column names are     *)
(* labels the engine only compares, and the templates below range over     *)
(* every dependency list on them, so one declared order per length stands  *)
(* for all of them.                                                        *)
Schemas == {<<"a">>, <<"a", "b">>, <<"a", "b", "c">>}

Range(seq) == {seq[j] : j \in 1..Len(seq)}

(* The column names of a schema (CellNames<CSchema>). *)
CellNames(schema) == Range(schema)

RECURSIVE SeqsUpTo(_, _)
SeqsUpTo(names, n) ==
  IF n = 0 THEN {<<>>}
  ELSE LET shorter == SeqsUpTo(names, n - 1)
       IN shorter \cup {Append(s, x) : s \in {t \in shorter : Len(t) = n - 1},
                                       x \in names}

RECURSIVE SumLen(_, _)
SumLen(f, S) ==
  IF S = {} THEN 0
  ELSE LET x == CHOOSE y \in S : TRUE
       IN Len(f[x]) + SumLen(f, S \ {x})

(* Dependency declarations: one list of schema names per column, lists may *)
(* repeat a name; at most MaxEdges entries over the whole template.        *)
DependencyLists(names) ==
  {d \in [names -> SeqsUpTo(names, MaxEdges)] : SumLen(d, names) <= MaxEdges}

(* The formulas a column definition may carry. *)
FormulaKinds == {"chained", "checked"}

(* The templates of the test suite.  Basic Example: a reads b of the same  *)
(* row, b counts up from the input.                                        *)
ScenarioA ==
  [cellSchema |-> <<"a", "b">>,
   template |->
     [a |-> [formula |-> "A.a", currRowDependencies |-> <<"b">>],
      b |-> [formula |-> "A.b", currRowDependencies |-> <<>>]],
   input |-> "initialValue"]

(* Dependencies: a chain of same-row dependencies. *)
ScenarioC ==
  [cellSchema |-> <<"base", "intermediate", "final">>,
   template |->
     [base |-> [formula |-> "C.base", currRowDependencies |-> <<>>],
      intermediate |-> [formula |-> "C.intermediate",
                        currRowDependencies |-> <<"base">>],
      final |-> [formula |-> "C.final",
                 currRowDependencies |-> <<"intermediate", "base">>]],
   input |-> "multiplier"]

(* Previous Row References: a running total. *)
ScenarioD ==
  [cellSchema |-> <<"current", "withPrevious">>,
   template |->
     [current |-> [formula |-> "D.current", currRowDependencies |-> <<>>],
      withPrevious |-> [formula |-> "D.withPrevious",
                        currRowDependencies |-> <<"current">>]],
   input |-> "multiplier"]

Scenarios == {ScenarioA, ScenarioC, ScenarioD}

(* RowTemplate: column name -> CellDefinition. *)
Templates(names) ==
  {[c \in names |-> [formula |-> k[c], currRowDependencies |-> d[c]]] :
     k \in [names -> FormulaKinds], d \in DependencyLists(names)}

(* The template every direct call of compileExecutionOrder carries apart   *)
(* from its dependency lists, which are the only field that call reads.    *)
CompileTemplates(names) ==
  {[c \in names |-> [formula |-> "chained", currRowDependencies |-> d[c]]] :
     d \in DependencyLists(names)}

VARIABLES
  entry,          \* the exported function the caller invoked
  cellSchema,     \* argument: the ordered column names
  template,       \* argument: column name -> definition
  inputs,         \* argument: the constant inputs
  numRows,        \* argument: the row count
  pc,             \* where control is
  executionOrder, \* compileExecutionOrder: the order built so far
  visited,        \* compileExecutionOrder: done columns
  visiting,       \* compileExecutionOrder: in-progress columns
  stack,          \* the activation records of visit(), innermost last
  si,             \* position of the schema loop of compileExecutionOrder
  visitLog,       \* every call of visit() of the current run, in order
  rows,           \* processRows: references of the rows pushed so far
  prevRowState,   \* processRows: reference of the previous row, Null if none
  newRowState,    \* processRows: reference of the row being evaluated
  i,              \* processRows: loop counter
  pos,            \* evaluateRow: position in executionOrder
  heap,           \* the row objects allocated so far, by reference
  error,          \* the exception a call ended with
  retOrder,       \* the value compileExecutionOrder returned to the caller
  retRows,        \* the value processRows returned to the caller
  log,            \* every formula invocation of the current call, in order
  callNo,         \* how many calls the caller has made
  firstOutcome,   \* what the caller's first call produced
  csv             \* the string toCsv returned to the caller

args == <<entry, cellSchema, template, inputs, numRows>>
compileLocals == <<executionOrder, visited, visiting, stack, si, visitLog>>
rowLocals == <<rows, prevRowState, newRowState, i, pos>>
outcome == <<error, retOrder, retRows>>
vars == <<args, pc, compileLocals, rowLocals, heap, outcome, log, callNo,
          firstOutcome, csv>>

(***************************************************************************)
(* Values                                                                  *)
(***************************************************************************)
Null == 0
Undefined == -1
NaN == -2
EmptyRow == [c \in {} |-> 0]
NoError == [name |-> "", involving |-> ""]
NoCsv == <<>>
NoOutcome == [pc |-> "", error |-> NoError, order |-> <<>>, rows |-> <<>>]

(* Variant: the message leaves the column out. *)
CircularDependencyErrorUnnamed(cellName) ==
  [name |-> "CircularDependencyError", involving |-> ""]

(* errors.ts: the error's message names the column. *)
CircularDependencyError(cellName) ==
  [name |-> "CircularDependencyError", involving |-> cellName]

(* Whatever a caller-supplied formula throws. *)
FormulaFailure(cellName) ==
  [name |-> "FormulaFailure", involving |-> cellName]


(***************************************************************************)
(* compileExecutionOrder                                                   *)
(***************************************************************************)
(* The locals a call of compileExecutionOrder starts with. *)
NewExecutionOrder == <<>>
NewVisited == {}
NewVisiting == {}

(* Variant: one set for both marks, a done column counts as in-progress. *)
InProgressOrDone(cellName) == cellName \in visiting \cup visited

(* `visiting.has(cellName)`: the column is on the recursion path. *)
InProgress(cellName) == cellName \in visiting

(* Variant: the done check is lost, every reference expands the column. *)
NeverVisited(cellName) == FALSE

(* `visited.has(cellName)`: the column is done. *)
AlreadyVisited(cellName) == cellName \in visited

(* Variant: the column is put at the front of the order (unshift). *)
PushFront(order, cellName) == <<cellName>> \o order

(* `executionOrder.push(cellName)`. *)
Push(order, cellName) == Append(order, cellName)

(* The activation record of visit(cellName): the column and the position   *)
(* of its `for (const dep of ...)` loop.                                   *)
Frame(cellName) == [cellName |-> cellName, idx |-> 1]

(* One call visit(cellName) as the traversal made it: from the dependency  *)
(* loop of the innermost visit() (the column and the list position), or    *)
(* from the schema loop (no column, the schema position), and how it       *)
(* ended.                                                                  *)
VisitCall(cellName, ending) ==
  [from |-> IF stack = <<>> THEN "" ELSE stack[Len(stack)].cellName,
   idx |-> IF stack = <<>> THEN si ELSE stack[Len(stack)].idx,
   cellName |-> cellName,
   ending |-> ending]

(* Variant: the error names the column whose dependency list was being    *)
(* walked instead of the column that was reached.                          *)
VisitNamingCaller(cellName, stk) ==
  IF InProgress(cellName)
  THEN /\ pc' = "thrown"
       /\ error' = CircularDependencyError(stack[Len(stack)].cellName)
       /\ visitLog' = Append(visitLog, VisitCall(cellName, "threw"))
       /\ UNCHANGED <<visiting, stack>>
  ELSE IF AlreadyVisited(cellName)
  THEN /\ stack' = stk
       /\ visitLog' = Append(visitLog, VisitCall(cellName, "skipped"))
       /\ UNCHANGED <<pc, error, visiting>>
  ELSE /\ visiting' = visiting \cup {cellName}
       /\ stack' = Append(stk, Frame(cellName))
       /\ visitLog' = Append(visitLog, VisitCall(cellName, "expanded"))
       /\ UNCHANGED <<pc, error>>

(* Variant: an in-progress column is skipped like a done one. *)
VisitIgnoringCycles(cellName, stk) ==
  IF InProgress(cellName) \/ AlreadyVisited(cellName)
  THEN /\ stack' = stk
       /\ visitLog' = Append(visitLog, VisitCall(cellName, "skipped"))
       /\ UNCHANGED <<pc, error, visiting>>
  ELSE /\ visiting' = visiting \cup {cellName}
       /\ stack' = Append(stk, Frame(cellName))
       /\ visitLog' = Append(visitLog, VisitCall(cellName, "expanded"))
       /\ UNCHANGED <<pc, error>>

(* Variant: the cycle is recorded and the traversal goes on, the column    *)
(* skipped like a done one.                                                *)
VisitRecordingCycle(cellName, stk) ==
  IF InProgress(cellName)
  THEN /\ error' = CircularDependencyError(cellName)
       /\ stack' = stk
       /\ visitLog' = Append(visitLog, VisitCall(cellName, "threw"))
       /\ UNCHANGED <<pc, visiting>>
  ELSE IF AlreadyVisited(cellName)
  THEN /\ stack' = stk
       /\ visitLog' = Append(visitLog, VisitCall(cellName, "skipped"))
       /\ UNCHANGED <<pc, error, visiting>>
  ELSE /\ visiting' = visiting \cup {cellName}
       /\ stack' = Append(stk, Frame(cellName))
       /\ visitLog' = Append(visitLog, VisitCall(cellName, "expanded"))
       /\ UNCHANGED <<pc, error>>

(* The call visit(cellName) up to its first recursive call: throw on an    *)
(* in-progress column, return on a done one, otherwise mark the column     *)
(* in-progress and start its dependency loop.  stk is the caller's stack.  *)
Visit(cellName, stk) ==
  IF InProgress(cellName)
  THEN /\ pc' = "thrown"
       /\ error' = CircularDependencyError(cellName)
       /\ visitLog' = Append(visitLog, VisitCall(cellName, "threw"))
       /\ UNCHANGED <<visiting, stack>>
  ELSE IF AlreadyVisited(cellName)
  THEN /\ stack' = stk
       /\ visitLog' = Append(visitLog, VisitCall(cellName, "skipped"))
       /\ UNCHANGED <<pc, error, visiting>>
  ELSE /\ visiting' = visiting \cup {cellName}
       /\ stack' = Append(stk, Frame(cellName))
       /\ visitLog' = Append(visitLog, VisitCall(cellName, "expanded"))
       /\ UNCHANGED <<pc, error>>

(* Variant: the schema is walked from its last column to its first. *)
SchemaLoopReversed ==
  /\ pc = "compile"
  /\ stack = <<>>
  /\ si <= Len(cellSchema)
  /\ LET name == cellSchema[Len(cellSchema) + 1 - si]
     IN IF ~AlreadyVisited(name)
        THEN Visit(name, stack)
        ELSE UNCHANGED <<pc, error, visiting, stack, visitLog>>
  /\ si' = IF pc' = "thrown" THEN si ELSE si + 1
  /\ UNCHANGED <<args, executionOrder, visited, rowLocals, heap, retOrder,
                 retRows, log, callNo, firstOutcome, csv>>

(* One iteration of `for (const { name } of cellSchema)`. *)
SchemaLoop ==
  /\ pc = "compile"
  /\ stack = <<>>
  /\ si <= Len(cellSchema)
  /\ LET name == cellSchema[si]
     IN IF ~AlreadyVisited(name)
        THEN Visit(name, stack)
        ELSE UNCHANGED <<pc, error, visiting, stack, visitLog>>
  /\ si' = IF pc' = "thrown" THEN si ELSE si + 1
  /\ UNCHANGED <<args, executionOrder, visited, rowLocals, heap, retOrder,
                 retRows, log, callNo, firstOutcome, csv>>

(* Variant: the dependency list is consumed while it is walked (shift()). *)
VisitDepShifting ==
  /\ pc = "compile"
  /\ stack # <<>>
  /\ LET top == stack[Len(stack)]
         cellDef == template[top.cellName]
     IN /\ cellDef.currRowDependencies # <<>>
        /\ top.idx = 1
        /\ template' = [template EXCEPT ![top.cellName].currRowDependencies =
                          Tail(@)]
        /\ Visit(Head(cellDef.currRowDependencies), stack)
  /\ UNCHANGED <<entry, cellSchema, inputs, numRows, executionOrder, visited,
                 si, rowLocals, heap, retOrder, retRows, log, callNo,
                 firstOutcome, csv>>

(* Variant: the dependency list is walked from its last entry to its      *)
(* first.                                                                  *)
VisitDepReversed ==
  /\ pc = "compile"
  /\ stack # <<>>
  /\ LET top == stack[Len(stack)]
         cellDef == template[top.cellName]
         last == Len(cellDef.currRowDependencies)
     IN /\ top.idx <= last
        /\ Visit(cellDef.currRowDependencies[last + 1 - top.idx],
                 [stack EXCEPT ![Len(stack)].idx = @ + 1])
  /\ UNCHANGED <<args, executionOrder, visited, si, rowLocals, heap, retOrder,
                 retRows, log, callNo, firstOutcome, csv>>

(* One iteration of `for (const dep of cellDef.currRowDependencies)` in    *)
(* the innermost visit().                                                  *)
VisitDep ==
  /\ pc = "compile"
  /\ stack # <<>>
  /\ LET top == stack[Len(stack)]
         cellDef == template[top.cellName]
     IN /\ top.idx <= Len(cellDef.currRowDependencies)
        /\ Visit(cellDef.currRowDependencies[top.idx],
                 [stack EXCEPT ![Len(stack)].idx = @ + 1])
  /\ UNCHANGED <<args, executionOrder, visited, si, rowLocals, heap, retOrder,
                 retRows, log, callNo, firstOutcome, csv>>

(* Variant: `visited.add(cellName)` is missing, the column is never done. *)
VisitExitUnmarked ==
  /\ pc = "compile"
  /\ stack # <<>>
  /\ LET top == stack[Len(stack)]
         cellDef == template[top.cellName]
     IN /\ top.idx > Len(cellDef.currRowDependencies)
        /\ visiting' = visiting \ {top.cellName}
        /\ executionOrder' = Push(executionOrder, top.cellName)
        /\ stack' = SubSeq(stack, 1, Len(stack) - 1)
  /\ UNCHANGED <<args, pc, si, visited, visitLog, rowLocals, heap, outcome,
                 log, callNo, firstOutcome, csv>>

(* Variant: `visiting.delete(cellName)` is missing. *)
VisitExitStillVisiting ==
  /\ pc = "compile"
  /\ stack # <<>>
  /\ LET top == stack[Len(stack)]
         cellDef == template[top.cellName]
     IN /\ top.idx > Len(cellDef.currRowDependencies)
        /\ visited' = visited \cup {top.cellName}
        /\ executionOrder' = Push(executionOrder, top.cellName)
        /\ stack' = SubSeq(stack, 1, Len(stack) - 1)
  /\ UNCHANGED <<args, pc, si, visiting, visitLog, rowLocals, heap, outcome,
                 log, callNo, firstOutcome, csv>>

(* The end of the innermost visit(): the column leaves the in-progress     *)
(* set, becomes done and is appended to the order.                         *)
VisitExit ==
  /\ pc = "compile"
  /\ stack # <<>>
  /\ LET top == stack[Len(stack)]
         cellDef == template[top.cellName]
     IN /\ top.idx > Len(cellDef.currRowDependencies)
        /\ visiting' = visiting \ {top.cellName}
        /\ visited' = visited \cup {top.cellName}
        /\ executionOrder' = Push(executionOrder, top.cellName)
        /\ stack' = SubSeq(stack, 1, Len(stack) - 1)
  /\ UNCHANGED <<args, pc, si, visitLog, rowLocals, heap, outcome, log,
                 callNo, firstOutcome, csv>>

(* Variant: the previous row outlives the call (a module-level variable). *)
InitialPrevRowStateKept == prevRowState

(* `let prevRowState = null`. *)
InitialPrevRowState == Null

(* `return executionOrder`: to the caller of compileExecutionOrder, or to  *)
(* processRows, which goes on to set up its row loop.                      *)
CompileReturn ==
  /\ pc = "compile"
  /\ stack = <<>>
  /\ si > Len(cellSchema)
  /\ IF entry = "compileExecutionOrder"
     THEN /\ pc' = "returned"
          /\ retOrder' = executionOrder
          /\ UNCHANGED <<rows, prevRowState, i>>
     ELSE /\ pc' = "rows"
          /\ rows' = <<>>
          /\ prevRowState' = InitialPrevRowState
          /\ i' = 0
          /\ UNCHANGED retOrder
  /\ UNCHANGED <<args, compileLocals, newRowState, pos, heap, error, retRows,
                 log, callNo, firstOutcome, csv>>

(***************************************************************************)
(* Formulas                                                                *)
(***************************************************************************)
(* `row[name]`: undefined when the row has no such property. *)
Get(row, name) == IF name \in DOMAIN row THEN row[name] ELSE Undefined

(* JavaScript `+` on the numbers of the model: undefined operands give NaN. *)
Plus(x, y) == IF x < 0 \/ y < 0 THEN NaN ELSE x + y

(* JavaScript `*` on the numbers of the model. *)
Times(x, y) == IF x < 0 \/ y < 0 THEN NaN ELSE x * y

(* `x || 0`: undefined, NaN and 0 are falsy. *)
OrZero(x) == IF x <= 0 THEN 0 ELSE x

(* `prevRow?.name`: undefined when there is no previous row. *)
PrevGet(context, name) ==
  IF context.prevRow = Null THEN Undefined
  ELSE Get(heap[context.prevRow], name)

(* `currRow.name`. *)
CurrGet(context, name) == Get(heap[context.currRow], name)

RECURSIVE SumOf(_, _)
SumOf(row, names) ==
  IF names = {} THEN 0
  ELSE LET name == CHOOSE n \in names : TRUE
       IN Plus(Get(row, name), SumOf(row, names \ {name}))

(* The value above which a "checked" formula fails. *)
FailAbove == 0

(* The value of the "chained" formula, which follows the formulas of the   *)
(* tests: the column's own previous value plus one, or the input on the    *)
(* first row (Basic Example, b), plus the current-row values of the        *)
(* declared dependencies (Dependencies, final).                            *)
Chained(cellDef, cellName, context) ==
  LET seed == IF context.prevRow # Null
              THEN Plus(Get(heap[context.prevRow], cellName), 1)
              ELSE context.inputs.initialValue
  IN Plus(seed, SumOf(heap[context.currRow],
                      Range(cellDef.currRowDependencies)))

(* cellDef.formula(context): what the formula returns, or that it threw.   *)
(* "checked" computes the chained value and fails when it exceeds          *)
(* FailAbove, so it may fail in the first row or in a later one.           *)
Formula(cellDef, cellName, context) ==
  CASE cellDef.formula = "chained" ->
         [threw |-> FALSE, value |-> Chained(cellDef, cellName, context)]
    [] cellDef.formula = "checked" ->
         LET value == Chained(cellDef, cellName, context)
         IN IF value > FailAbove
            THEN [threw |-> TRUE, value |-> Undefined]
            ELSE [threw |-> FALSE, value |-> value]
    [] cellDef.formula = "A.a" ->
         [threw |-> FALSE, value |-> CurrGet(context, "b")]
    [] cellDef.formula = "A.b" ->
         [threw |-> FALSE,
          value |-> IF context.prevRow # Null
                    THEN Plus(PrevGet(context, "b"), 1)
                    ELSE context.inputs.initialValue]
    [] cellDef.formula = "C.base" ->
         [threw |-> FALSE, value |-> Times(context.inputs.multiplier, 5)]
    [] cellDef.formula = "C.intermediate" ->
         [threw |-> FALSE, value |-> Times(CurrGet(context, "base"), 2)]
    [] cellDef.formula = "C.final" ->
         [threw |-> FALSE,
          value |-> Plus(CurrGet(context, "intermediate"),
                         CurrGet(context, "base"))]
    [] cellDef.formula = "D.current" ->
         [threw |-> FALSE, value |-> Times(context.inputs.multiplier, 10)]
    [] cellDef.formula = "D.withPrevious" ->
         [threw |-> FALSE,
          value |-> Plus(OrZero(PrevGet(context, "withPrevious")),
                         CurrGet(context, "current"))]

(***************************************************************************)
(* processRows and evaluateRow                                             *)
(***************************************************************************)
(* Variant: off by one, the loop runs once more. *)
RowLoopCondInclusive(n) == n <= numRows

(* `i < numRows`, the condition of the row loop. *)
RowLoopCond(n) == n < numRows

(* Variant: the last column of the order is skipped. *)
CellLoopCondShort(p) == p < Len(executionOrder)

(* The condition of `for (const cellName of executionOrder)`. *)
CellLoopCond(p) == p <= Len(executionOrder)

(* Variant: the key is taken from the schema at the loop's position        *)
(* instead of the column being evaluated.                                  *)
StoreBySchemaPosition(row, cellName, result) ==
  [name \in DOMAIN row \cup {cellSchema[pos]} |->
     IF name = cellSchema[pos] THEN result ELSE row[name]]

(* `rowState[cellName] = result`. *)
Store(row, cellName, result) ==
  [name \in DOMAIN row \cup {cellName} |->
     IF name = cellName THEN result ELSE row[name]]

(* Variant: the previous row is never advanced. *)
NextPrevRowStateStale(evaluatedRowState) == prevRowState

(* Variant: the previous row is set once and then stays the first row. *)
NextPrevRowStateFirst(evaluatedRowState) ==
  IF prevRowState = Null THEN evaluatedRowState ELSE prevRowState

(* `prevRowState = evaluatedRowState`. *)
NextPrevRowState(evaluatedRowState) == evaluatedRowState

(* The context object evaluateRow builds once per row. *)
FormulaContext ==
  [prevRow |-> prevRowState, currRow |-> newRowState, inputs |-> inputs]

(* What one formula invocation was given, as the formula saw it, and what *)
(* it gave back.                                                           *)
Invocation(cellName, context, result) ==
  [row |-> i, cellName |-> cellName, context |-> context,
   prevSeen |-> IF context.prevRow = Null THEN EmptyRow
                ELSE heap[context.prevRow],
   currSeen |-> heap[context.currRow],
   result |-> result]

(* Variant: no fresh object per row, the previous row's object is reused. *)
RowBeginReusing ==
  /\ pc = "rows"
  /\ RowLoopCond(i)
  /\ heap' = IF prevRowState = Null THEN Append(heap, EmptyRow) ELSE heap
  /\ newRowState' = IF prevRowState = Null THEN Len(heap) + 1 ELSE prevRowState
  /\ pos' = 1
  /\ pc' = "eval"
  /\ UNCHANGED <<args, compileLocals, rows, prevRowState, i, outcome, log,
                 callNo, firstOutcome, csv>>

(* Variant: the new row starts as a copy of the previous row            *)
(* (`{ ...prevRowState }`).                                                *)
RowBeginCopying ==
  /\ pc = "rows"
  /\ RowLoopCond(i)
  /\ heap' = Append(heap, IF prevRowState = Null THEN EmptyRow
                          ELSE heap[prevRowState])
  /\ newRowState' = Len(heap) + 1
  /\ pos' = 1
  /\ pc' = "eval"
  /\ UNCHANGED <<args, compileLocals, rows, prevRowState, i, outcome, log,
                 callNo, firstOutcome, csv>>

(* The head of the row loop with a row to produce: a fresh empty row       *)
(* object, and evaluateRow is entered.                                     *)
RowBegin ==
  /\ pc = "rows"
  /\ RowLoopCond(i)
  /\ heap' = Append(heap, EmptyRow)
  /\ newRowState' = Len(heap) + 1
  /\ pos' = 1
  /\ pc' = "eval"
  /\ UNCHANGED <<args, compileLocals, rows, prevRowState, i, outcome, log,
                 callNo, firstOutcome, csv>>

(* Variant: a failing formula is caught, its column stays unset and the    *)
(* evaluation goes on.                                                     *)
EvalCellSwallowing ==
  /\ pc = "eval"
  /\ CellLoopCond(pos)
  /\ LET cellName == executionOrder[pos]
         cellDef == template[cellName]
         result == Formula(cellDef, cellName, FormulaContext)
     IN /\ log' = Append(log, Invocation(cellName, FormulaContext, result))
        /\ heap' = IF result.threw THEN heap
                   ELSE [heap EXCEPT ![newRowState] =
                           Store(@, cellName, result.value)]
        /\ pos' = pos + 1
        /\ UNCHANGED <<pc, error>>
  /\ UNCHANGED <<args, compileLocals, rows, prevRowState, newRowState, i,
                 retOrder, retRows, callNo, firstOutcome, csv>>

(* Variant: the columns are evaluated in schema order, not in the compiled *)
(* order.                                                                  *)
EvalCellSchemaOrder ==
  /\ pc = "eval"
  /\ CellLoopCond(pos)
  /\ LET cellName == cellSchema[pos]
         cellDef == template[cellName]
         result == Formula(cellDef, cellName, FormulaContext)
     IN /\ log' = Append(log, Invocation(cellName, FormulaContext, result))
        /\ IF result.threw
           THEN /\ pc' = "thrown"
                /\ error' = FormulaFailure(cellName)
                /\ UNCHANGED <<heap, pos>>
           ELSE /\ heap' = [heap EXCEPT ![newRowState] =
                              Store(@, cellName, result.value)]
                /\ pos' = pos + 1
                /\ UNCHANGED <<pc, error>>
  /\ UNCHANGED <<args, compileLocals, rows, prevRowState, newRowState, i,
                 retOrder, retRows, callNo, firstOutcome, csv>>

(* Variant: the formula is invoked a second time for the value to store.  *)
EvalCellTwice ==
  /\ pc = "eval"
  /\ CellLoopCond(pos)
  /\ LET cellName == executionOrder[pos]
         cellDef == template[cellName]
         result == Formula(cellDef, cellName, FormulaContext)
         invocation == Invocation(cellName, FormulaContext, result)
     IN /\ log' = Append(Append(log, invocation), invocation)
        /\ IF result.threw
           THEN /\ pc' = "thrown"
                /\ error' = FormulaFailure(cellName)
                /\ UNCHANGED <<heap, pos>>
           ELSE /\ heap' = [heap EXCEPT ![newRowState] =
                              Store(@, cellName, result.value)]
                /\ pos' = pos + 1
                /\ UNCHANGED <<pc, error>>
  /\ UNCHANGED <<args, compileLocals, rows, prevRowState, newRowState, i,
                 retOrder, retRows, callNo, firstOutcome, csv>>

(* One iteration of evaluateRow's loop: the formula is invoked and its     *)
(* result stored in the current row; a failing formula ends the call.      *)
EvalCell ==
  /\ pc = "eval"
  /\ CellLoopCond(pos)
  /\ LET cellName == executionOrder[pos]
         cellDef == template[cellName]
         result == Formula(cellDef, cellName, FormulaContext)
     IN /\ log' = Append(log, Invocation(cellName, FormulaContext, result))
        /\ IF result.threw
           THEN /\ pc' = "thrown"
                /\ error' = FormulaFailure(cellName)
                /\ UNCHANGED <<heap, pos>>
           ELSE /\ heap' = [heap EXCEPT ![newRowState] =
                              Store(@, cellName, result.value)]
                /\ pos' = pos + 1
                /\ UNCHANGED <<pc, error>>
  /\ UNCHANGED <<args, compileLocals, rows, prevRowState, newRowState, i,
                 retOrder, retRows, callNo, firstOutcome, csv>>

(* Variant: the row loop consumes the order it walks (shift()), so nothing *)
(* of it is left for the next row.                                         *)
RowEndOrderConsumed ==
  /\ pc = "eval"
  /\ ~CellLoopCond(pos)
  /\ rows' = Append(rows, newRowState)
  /\ prevRowState' = NextPrevRowState(newRowState)
  /\ i' = i + 1
  /\ pc' = "rows"
  /\ executionOrder' = <<>>
  /\ UNCHANGED <<args, visited, visiting, stack, si, visitLog, newRowState,
                 pos, heap, outcome, log, callNo, firstOutcome, csv>>

(* Variant: once the new row is pushed, the row before it is emptied.      *)
RowEndClearingPrevious ==
  /\ pc = "eval"
  /\ ~CellLoopCond(pos)
  /\ rows' = Append(rows, newRowState)
  /\ heap' = IF prevRowState = Null THEN heap
             ELSE [heap EXCEPT ![prevRowState] = EmptyRow]
  /\ prevRowState' = NextPrevRowState(newRowState)
  /\ i' = i + 1
  /\ pc' = "rows"
  /\ UNCHANGED <<args, compileLocals, newRowState, pos, outcome, log,
                 callNo, firstOutcome, csv>>

(* Variant: the row is put at the front of the rows (unshift). *)
RowEndUnshift ==
  /\ pc = "eval"
  /\ ~CellLoopCond(pos)
  /\ rows' = <<newRowState>> \o rows
  /\ prevRowState' = NextPrevRowState(newRowState)
  /\ i' = i + 1
  /\ pc' = "rows"
  /\ UNCHANGED <<args, compileLocals, newRowState, pos, heap, outcome, log,
                 callNo, firstOutcome, csv>>

(* evaluateRow returns: the row is pushed and becomes the previous row.    *)
RowEnd ==
  /\ pc = "eval"
  /\ ~CellLoopCond(pos)
  /\ rows' = Append(rows, newRowState)
  /\ prevRowState' = NextPrevRowState(newRowState)
  /\ i' = i + 1
  /\ pc' = "rows"
  /\ UNCHANGED <<args, compileLocals, newRowState, pos, heap, outcome, log,
                 callNo, firstOutcome, csv>>

(* `return rows`. *)
ProcessReturn ==
  /\ pc = "rows"
  /\ ~RowLoopCond(i)
  /\ retRows' = rows
  /\ pc' = "returned"
  /\ UNCHANGED <<args, compileLocals, rowLocals, heap, error, retOrder, log,
                 callNo, firstOutcome, csv>>

(***************************************************************************)
(* toCsv                                                                   *)
(***************************************************************************)
(* The string is modelled as the sequence of its pieces: the cells and the *)
(* separators between them.                                                *)
(* What Array.prototype.join makes of one element: undefined and null give *)
(* the empty string, a number its decimal digits.                          *)
Render(value) ==
  IF value = Undefined THEN ""
  ELSE IF value = NaN THEN "NaN"
  ELSE ToString(value)

(* `pieces.join(separator)`, for an array of strings already split in      *)
(* pieces.                                                                 *)
RECURSIVE Join(_, _)
Join(parts, separator) ==
  IF parts = <<>> THEN <<>>
  ELSE IF Len(parts) = 1 THEN parts[1]
  ELSE parts[1] \o <<separator>> \o Join(Tail(parts), separator)

(* `cellSchema.map((cell) => cell.name)`. *)
Headers(schema) == [k \in 1..Len(schema) |-> schema[k]]

(* Variant: the values of a row are taken in the order of its keys         *)
(* (Object.values), which is the order the engine stored them in.          *)
RowLineByKeyOrder(row, headers) ==
  Join([k \in 1..Len(executionOrder) |-> <<Render(Get(row, executionOrder[k]))>>],
       ",")

(* `headers.map((header) => row[header]).join(',')`. *)
RowLine(row, headers) ==
  Join([k \in 1..Len(headers) |-> <<Render(Get(row, headers[k]))>>], ",")

(* toCsv(cellSchema, rows). *)
toCsv(schema, rowRefs) ==
  LET headers == Headers(schema)
  IN Join(<<Join([k \in 1..Len(headers) |-> <<headers[k]>>], ",")>>
            \o [j \in 1..Len(rowRefs) |-> RowLine(heap[rowRefs[j]], headers)],
          "\n")

(* The caller renders the rows processRows returned. *)
ToCsv ==
  /\ pc = "returned"
  /\ entry = "processRows"
  /\ csv = NoCsv
  /\ csv' = toCsv(cellSchema, retRows)
  /\ UNCHANGED <<args, pc, compileLocals, rowLocals, heap, outcome, log,
                 callNo, firstOutcome>>

(***************************************************************************)
(* The caller                                                              *)
(***************************************************************************)
(* The rows a returned sequence of references denotes. *)
RowValues(refs) == [j \in 1..Len(refs) |-> heap[refs[j]]]

(* What the caller observes of a finished call. *)
Outcome ==
  [pc |-> pc, error |-> error, order |-> retOrder, rows |-> RowValues(retRows)]

(* The caller repeats its call with the same arguments; the locals of      *)
(* processRows keep their dead values until the call sets them again.      *)
CallAgain ==
  /\ pc \in {"returned", "thrown"}
  /\ callNo < MaxCalls
  /\ callNo' = callNo + 1
  /\ firstOutcome' = IF callNo = 1 THEN Outcome ELSE firstOutcome
  /\ pc' = "compile"
  /\ executionOrder' = NewExecutionOrder
  /\ visited' = NewVisited
  /\ visiting' = NewVisiting
  /\ stack' = <<>>
  /\ si' = 1
  /\ visitLog' = <<>>
  /\ error' = NoError
  /\ retOrder' = <<>>
  /\ retRows' = <<>>
  /\ log' = <<>>
  /\ csv' = NoCsv
  /\ UNCHANGED <<args, rowLocals, heap>>

(* The caller's first call is entered: the compiler's locals are fresh,    *)
(* nothing is allocated, returned or thrown yet.                           *)
FirstCall ==
  /\ pc = "compile"
  /\ executionOrder = NewExecutionOrder
  /\ visited = NewVisited
  /\ visiting = NewVisiting
  /\ stack = <<>>
  /\ si = 1
  /\ visitLog = <<>>
  /\ rows = <<>>
  /\ prevRowState = Null
  /\ newRowState = Null
  /\ i = 0
  /\ pos = 1
  /\ heap = <<>>
  /\ error = NoError
  /\ retOrder = <<>>
  /\ retRows = <<>>
  /\ log = <<>>
  /\ callNo = 1
  /\ firstOutcome = NoOutcome
  /\ csv = NoCsv

Init ==
  /\ entry \in {"compileExecutionOrder", "processRows"}
  /\ cellSchema \in Schemas
  /\ template \in IF entry = "processRows"
                  THEN Templates(CellNames(cellSchema))
                  ELSE CompileTemplates(CellNames(cellSchema))
  /\ inputs \in IF entry = "processRows"
                THEN [initialValue : 0..MaxInput]
                ELSE [initialValue : {0}]
  /\ numRows \in IF entry = "processRows" THEN 0..MaxRows ELSE {0}
  /\ FirstCall

(* A caller runs one of the test suite's templates through processRows. *)
InitScenario ==
  /\ entry = "processRows"
  /\ \E scenario \in Scenarios :
       /\ cellSchema = scenario.cellSchema
       /\ template = scenario.template
       /\ inputs \in [{scenario.input} -> 0..MaxScenarioInput]
  /\ numRows \in 0..MaxScenarioRows
  /\ FirstCall

Next ==
  \/ SchemaLoop
  \/ VisitDep
  \/ VisitExit
  \/ CompileReturn
  \/ RowBegin
  \/ EvalCell
  \/ RowEnd
  \/ ProcessReturn
  \/ ToCsv
  \/ CallAgain

Spec == Init /\ [][Next]_vars

SpecScenario == InitScenario /\ [][Next]_vars

(* compileExecutionOrder called directly, on every template of the bounds. *)
InitCompile ==
  /\ entry = "compileExecutionOrder"
  /\ cellSchema \in Schemas
  /\ template \in CompileTemplates(CellNames(cellSchema))
  /\ inputs \in [initialValue : {0}]
  /\ numRows = 0
  /\ FirstCall

(* The steps of compileExecutionOrder itself. *)
CompileStep ==
  \/ SchemaLoop
  \/ VisitDep
  \/ VisitExit
  \/ CompileReturn

NextCompile ==
  \/ SchemaLoop
  \/ VisitDep
  \/ VisitExit
  \/ CompileReturn
  \/ CallAgain

(* The function is sequential code: a step that can be taken is taken. *)
SpecTermination ==
  InitCompile /\ [][NextCompile]_vars /\ WF_vars(CompileStep)

(* The caller calls processRows a second time with the same schema,        *)
(* template and inputs and a row count no larger than the first.           *)
CallShorter ==
  /\ pc \in {"returned", "thrown"}
  /\ callNo = 1
  /\ callNo' = 2
  /\ numRows' \in 0..numRows
  /\ firstOutcome' = Outcome
  /\ pc' = "compile"
  /\ executionOrder' = NewExecutionOrder
  /\ visited' = NewVisited
  /\ visiting' = NewVisiting
  /\ stack' = <<>>
  /\ si' = 1
  /\ visitLog' = <<>>
  /\ error' = NoError
  /\ retOrder' = <<>>
  /\ retRows' = <<>>
  /\ log' = <<>>
  /\ UNCHANGED <<entry, cellSchema, template, inputs, rowLocals, heap, csv>>

(* processRows on every template, input and row count of the bounds. *)
InitProcess ==
  /\ entry = "processRows"
  /\ cellSchema \in Schemas
  /\ template \in Templates(CellNames(cellSchema))
  /\ inputs \in [initialValue : 0..MaxInput]
  /\ numRows \in 0..MaxRows
  /\ FirstCall

NextPrefix ==
  \/ SchemaLoop
  \/ VisitDep
  \/ VisitExit
  \/ CompileReturn
  \/ RowBegin
  \/ EvalCell
  \/ RowEnd
  \/ ProcessReturn
  \/ CallShorter

SpecPrefix == InitProcess /\ [][NextPrefix]_vars

(***************************************************************************)
(* The dependency graph of the template                                    *)
(***************************************************************************)
(* The columns a column declares as same-row dependencies. *)
Dependencies(cellName) == Range(template[cellName].currRowDependencies)

RECURSIVE Closure(_, _)
Closure(S, n) ==
  IF n = 0 THEN S
  ELSE Closure(S \cup UNION {Dependencies(x) : x \in S}, n - 1)

(* The columns reachable from a column along one or more dependencies. *)
Reachable(cellName) == Closure(Dependencies(cellName), Len(cellSchema))

OnCycle(cellName) == cellName \in Reachable(cellName)
Columns == CellNames(cellSchema)
CyclicColumns == {c \in Columns : OnCycle(c)}
Acyclic == CyclicColumns = {}

PositionsOf(order, cellName) == {p \in 1..Len(order) : order[p] = cellName}
SchemaPosition(cellName) == CHOOSE p \in 1..Len(cellSchema) : cellSchema[p] = cellName

(* compileExecutionOrder has finished, by return or by throwing. *)
CompileFinished == pc # "compile"
CircularRaised == pc = "thrown" /\ error.name = "CircularDependencyError"
(* compileExecutionOrder has returned an order, and that order. *)
OrderReturned == CompileFinished /\ ~CircularRaised
ReturnedOrder ==
  IF entry = "compileExecutionOrder" THEN retOrder ELSE executionOrder

(***************************************************************************)
(* Claims                                                                  *)
(***************************************************************************)
(* C1: for an acyclic template the returned order places every dependency  *)
(* d of every column c strictly before c.                                  *)
C1_DependenciesFirst ==
  (OrderReturned /\ Acyclic) =>
    \A c \in Columns : \A d \in Dependencies(c) :
      /\ PositionsOf(ReturnedOrder, c) # {}
      /\ \A q \in PositionsOf(ReturnedOrder, c) :
           \E p \in PositionsOf(ReturnedOrder, d) : p < q

(* An order was returned for a template where a column precedes one of its *)
(* dependencies in the schema.                                             *)
C1_Witness ==
  /\ Acyclic /\ OrderReturned
  /\ \E c \in Columns : \E d \in Dependencies(c) :
       SchemaPosition(c) < SchemaPosition(d)

(* C2: for an acyclic template the returned order is a permutation of the  *)
(* schema's column names.                                                  *)
C2_Permutation ==
  (OrderReturned /\ Acyclic) =>
    /\ Len(ReturnedOrder) = Len(cellSchema)
    /\ \A c \in Columns : Cardinality(PositionsOf(ReturnedOrder, c)) = 1
    /\ Range(ReturnedOrder) \subseteq Columns

(* An order was returned for a template where a column is referenced more  *)
(* than once (shared by two columns, or repeated in one list).             *)
C2_Witness ==
  /\ Acyclic /\ OrderReturned
  /\ \E d \in Columns :
       \/ Cardinality({c \in Columns : d \in Dependencies(c)}) >= 2
       \/ \E c \in Columns :
            Cardinality(PositionsOf(template[c].currRowDependencies, d)) >= 2

(* C3: once compilation has finished, it has raised CircularDependencyError *)
(* exactly if the dependency graph has a cycle.                            *)
C3_CycleDetectionExact == CompileFinished => (CircularRaised <=> ~Acyclic)

(* The error was raised for a cycle through all three columns. *)
C3_Witness ==
  /\ CircularRaised
  /\ Cardinality(CyclicColumns) = 3
  /\ \A c \in Columns : c \notin Dependencies(c)

(* C4 as stated: every column that lists itself is the column the error    *)
(* names.                                                                  *)
C4_Original ==
  \A c \in Columns :
    (c \in Dependencies(c) /\ CompileFinished) =>
      (CircularRaised /\ error.involving = c)

(* C4 amended: a template with a column that lists itself raises the error; *)
(* the error names that column when no other column lies on a cycle.       *)
C4_SelfDependency ==
  \A c \in Columns :
    (c \in Dependencies(c) /\ CompileFinished) =>
      /\ CircularRaised
      /\ (CyclicColumns = {c} => error.involving = c)

(* The error was raised for a column that lists itself, reached through    *)
(* another column, and is the only cyclic column.                           *)
C4_Witness ==
  /\ CircularRaised
  /\ \E c \in Columns :
       /\ c \in Dependencies(c)
       /\ CyclicColumns = {c}
       /\ error.involving = c
       /\ Len(stack) >= 2

(* C5: the column the error names is the column the traversal reached      *)
(* while it was in-progress, and it lies on a dependency cycle.             *)
C5_ErrorNamesReachedColumn ==
  CircularRaised =>
    /\ stack # <<>>
    /\ LET top == stack[Len(stack)]
       IN error.involving = template[top.cellName].currRowDependencies[top.idx]
    /\ error.involving \in visiting
    /\ OnCycle(error.involving)

(* The error was raised on reaching a column from a different column. *)
C5_Witness ==
  /\ CircularRaised
  /\ stack # <<>>
  /\ stack[Len(stack)].cellName # error.involving

(* No column of the template carries a formula that can fail. *)
NoFormulaFails == \A c \in Columns : template[c].formula # "checked"

(* processRows has returned its rows to the caller. *)
RowsReturned == entry = "processRows" /\ pc = "returned"

(* C6: for a cyclic template processRows raises CircularDependencyError    *)
(* whatever the row count, returns no rows, and invokes no formula; no     *)
(* formula is invoked while compilation is still running.                  *)
C6_CyclicProducesNothing ==
  /\ (entry = "processRows" /\ ~Acyclic) =>
       /\ CompileFinished => CircularRaised
       /\ log = <<>>
       /\ heap = <<>>
       /\ rows = <<>>
       /\ retRows = <<>>
  /\ (entry = "processRows" /\ pc = "compile") => log = <<>>

(* processRows raised the error for a cyclic template and zero rows. *)
C6_Witness ==
  /\ entry = "processRows"
  /\ ~Acyclic
  /\ numRows = 0
  /\ CircularRaised

(* C7: for an acyclic template whose formulas do not fail processRows does *)
(* not raise, and it returns exactly numRows rows, the row produced by     *)
(* iteration j at position j.                                              *)
C7_RowCount ==
  (entry = "processRows" /\ NoFormulaFails /\ Acyclic) =>
    /\ pc # "thrown"
    /\ RowsReturned =>
         /\ Len(retRows) = numRows
         /\ \A e \in Range(log) :
              /\ e.row + 1 \in 1..Len(retRows)
              /\ retRows[e.row + 1] = e.context.currRow
         /\ \A j \in 1..Len(retRows) : \E e \in Range(log) : e.row = j - 1

(* processRows returned two rows. *)
C7_Witness ==
  /\ RowsReturned
  /\ Acyclic /\ NoFormulaFails
  /\ numRows = 2
  /\ Len(retRows) = 2

(* C8: the formulas of row 0 are given prevRow = null; the formulas of row *)
(* i >= 1 are given output row i-1, complete, and what they read in it is  *)
(* what output row i-1 holds.                                              *)
C8_PreviousRowChaining ==
  entry = "processRows" =>
    \A e \in Range(log) :
      IF e.row = 0
      THEN e.context.prevRow = Null
      ELSE /\ e.row \in 1..Len(rows)
           /\ e.context.prevRow = rows[e.row]
           /\ DOMAIN e.prevSeen = Columns
           /\ \A c \in Columns :
                e.prevSeen[c] = heap[rows[e.row]][c]

(* A formula of the second row ran, with a previous row to read. *)
C8_Witness ==
  /\ RowsReturned
  /\ \E e \in Range(log) : e.row = 1 /\ e.context.prevRow # Null

(* C9: a repeated call of processRows with the same arguments returns the  *)
(* same rows as the first call.                                            *)
C9_Determinism ==
  (RowsReturned /\ callNo >= 2) =>
    /\ firstOutcome.pc = "returned"
    /\ RowValues(retRows) = firstOutcome.rows

(* The second call returned rows. *)
C9_Witness ==
  /\ RowsReturned
  /\ callNo = 2
  /\ Len(retRows) >= 2

(* C10: every returned row holds a value for every schema column and for   *)
(* no other name.                                                          *)
C10_RowsComplete ==
  (RowsReturned /\ Acyclic) =>
    \A j \in 1..Len(retRows) : DOMAIN heap[retRows[j]] = Columns

(* Rows were returned for a template with dependencies. *)
C10_Witness ==
  /\ RowsReturned
  /\ Len(retRows) >= 1
  /\ \E c \in Columns : Dependencies(c) # {}

(* processRows ended with the failure of a formula. *)
FormulaRaised == pc = "thrown" /\ error.name = "FormulaFailure"

(* C11: when a formula fails, that invocation is the last one of the call, *)
(* the call has ended with the formula's own failure, and no rows are      *)
(* returned; and the call ends with a formula failure only this way.       *)
C11_FailurePropagates ==
  entry = "processRows" =>
    /\ \A p \in 1..Len(log) :
         log[p].result.threw =>
           /\ p = Len(log)
           /\ pc = "thrown"
           /\ error = FormulaFailure(log[p].cellName)
           /\ retRows = <<>>
    /\ FormulaRaised => (log # <<>> /\ log[Len(log)].result.threw)

(* A formula failed in the second row, before the last column of the order. *)
C11_Witness ==
  /\ FormulaRaised
  /\ log # <<>>
  /\ log[Len(log)].row = 1
  /\ pos < Len(executionOrder)

(* C12: whenever a formula is invoked, every column of its declared       *)
(* dependency list already has its value in the current row.               *)
C12_DependenciesPopulated ==
  entry = "processRows" =>
    \A e \in Range(log) :
      \A d \in Dependencies(e.cellName) :
        /\ d \in DOMAIN e.currSeen
        /\ e.currSeen[d] = heap[e.context.currRow][d]

(* A formula of the second row ran whose column precedes one of its        *)
(* dependencies in the schema.                                             *)
C12_Witness ==
  /\ entry = "processRows"
  /\ \E e \in Range(log) :
       /\ e.row = 1
       /\ \E d \in Dependencies(e.cellName) :
            SchemaPosition(e.cellName) < SchemaPosition(d)

(* The invocations of the call so far are those of walking the compiled   *)
(* order once per row, each with the inputs of the call.                   *)
RowsFollowOrder ==
  \A p \in 1..Len(log) :
    /\ executionOrder # <<>>
    /\ log[p].row = (p - 1) \div Len(executionOrder)
    /\ log[p].cellName = executionOrder[((p - 1) % Len(executionOrder)) + 1]
    /\ log[p].context.inputs = inputs

(* C13: processRows compiles the order once per call and before any row:   *)
(* no formula runs during compilation, control never comes back to the     *)
(* compiler within a call, the order, the template and the inputs do not   *)
(* change while rows are evaluated, and every row walks that order.        *)
C13_CompiledOnce ==
  /\ [](entry = "processRows" =>
          /\ pc = "compile" => log = <<>>
          /\ RowsFollowOrder)
  /\ [][/\ pc \in {"rows", "eval"} =>
             /\ executionOrder' = executionOrder
             /\ template' = template
             /\ inputs' = inputs
        /\ (pc # "compile" /\ pc' = "compile") => callNo' = callNo + 1]_vars

(* Two rows were evaluated and returned, over an order of several columns. *)
C13_Witness ==
  /\ RowsReturned
  /\ Len(retRows) = 2
  /\ Len(executionOrder) >= 2
  /\ Len(log) = 2 * Len(executionOrder)

(* C14: Basic Example with initial value v: processRows returns numRows   *)
(* rows and row i is {a: v+i, b: v+i}.                                     *)
C14_ScenarioA ==
  (cellSchema = ScenarioA.cellSchema /\ RowsReturned) =>
    /\ Len(retRows) = numRows
    /\ \A j \in 1..Len(retRows) :
         heap[retRows[j]] = [a |-> inputs.initialValue + (j - 1),
                             b |-> inputs.initialValue + (j - 1)]

(* The test's case: initial value 5, three rows. *)
C14_Witness ==
  /\ cellSchema = ScenarioA.cellSchema
  /\ RowsReturned
  /\ inputs.initialValue = 5
  /\ RowValues(retRows) =
       <<[a |-> 5, b |-> 5], [a |-> 6, b |-> 6], [a |-> 7, b |-> 7]>>

RECURSIVE SplitOn(_, _)
SplitOn(pieces, separator) ==
  IF pieces = <<>> THEN << <<>> >>
  ELSE LET rest == SplitOn(Tail(pieces), separator)
       IN IF Head(pieces) = separator
          THEN << <<>> >> \o rest
          ELSE << <<Head(pieces)>> \o rest[1] >> \o Tail(rest)

(* C17: the string toCsv returns has one line more than there are rows     *)
(* (so no trailing newline); the first line is the column names in schema  *)
(* order, and line j+1 is the values of row j in schema column order.      *)
C17_CsvLayout ==
  csv # NoCsv =>
    LET lines == SplitOn(csv, "\n")
    IN /\ Len(lines) = Len(retRows) + 1
       /\ SplitOn(lines[1], ",") = [k \in 1..Len(cellSchema) |-> <<cellSchema[k]>>]
       /\ \A j \in 1..Len(retRows) :
            SplitOn(lines[j + 1], ",") =
              [k \in 1..Len(cellSchema) |->
                 <<ToString(heap[retRows[j]][cellSchema[k]])>>]

(* Two rows were rendered whose values were stored in another order than   *)
(* the schema's.                                                           *)
C17_Witness ==
  /\ csv # NoCsv
  /\ Len(retRows) = 2
  /\ executionOrder # cellSchema

(* C18: no step of compileExecutionOrder, returning and throwing          *)
(* included, changes the template or the schema.                           *)
C18_CompileHasNoSideEffects ==
  [][pc = "compile" => (template' = template /\ cellSchema' = cellSchema)]_vars

(* compileExecutionOrder was called directly and returned after walking a  *)
(* dependency list of several entries.                                     *)
C18_Witness ==
  /\ entry = "compileExecutionOrder"
  /\ pc = "returned"
  /\ \E c \in Columns : Len(template[c].currRowDependencies) >= 2

(* C19: no step of evaluateRow changes the inputs or the previous row;    *)
(* it writes to the current row only.                                      *)
C19_EvaluateRowWritesCurrentRowOnly ==
  [][pc = "eval" =>
       /\ inputs' = inputs
       /\ prevRowState # Null => heap'[prevRowState] = heap[prevRowState]
       /\ \A ref \in 1..Len(heap) :
            ref # newRowState => heap'[ref] = heap[ref]]_vars

(* The second row was evaluated in full, with the first as previous row. *)
C19_Witness ==
  /\ entry = "processRows"
  /\ pc = "rows"
  /\ i = 2
  /\ prevRowState # Null
  /\ heap[rows[1]] # EmptyRow

(* The post-order of the depth-first traversal of the claim: the columns  *)
(* of `names` from position k on are visited in turn, a column already in  *)
(* the order is skipped, any other is appended after its dependencies.     *)
RECURSIVE PostOrderFrom(_, _, _)
PostOrderFrom(names, k, order) ==
  IF k > Len(names) THEN order
  ELSE LET c == names[k]
           after == IF c \in Range(order) THEN order
                    ELSE Append(PostOrderFrom(template[c].currRowDependencies,
                                              1, order), c)
       IN PostOrderFrom(names, k + 1, after)

PostOrder == PostOrderFrom(cellSchema, 1, <<>>)

(* C20: for an acyclic template the returned order is the post-order of    *)
(* the depth-first traversal from the schema columns in declared order,    *)
(* dependencies in list order; a function of template and schema alone.    *)
C20_PostOrder ==
  (OrderReturned /\ Acyclic) => ReturnedOrder = PostOrder

(* An order was returned for a column with two different dependencies that *)
(* both come later in the schema.                                          *)
C20_Witness ==
  /\ OrderReturned /\ Acyclic
  /\ \E c \in Columns :
       /\ Cardinality(Dependencies(c)) >= 2
       /\ \A d \in Dependencies(c) : SchemaPosition(c) < SchemaPosition(d)


(* The invocations of the same row that came before invocation p. *)
EarlierInRow(p) == {q \in 1..(p - 1) : log[q].row = log[p].row}

(* C21: when the formula of the column at position k of the order runs,    *)
(* the current row holds exactly the columns before position k, each with  *)
(* the value its formula returned in this row; so reading a column gives   *)
(* that value for an earlier column and undefined for any other.           *)
C21_CurrRowIsOrderPrefix ==
  entry = "processRows" =>
    \A p \in 1..Len(log) :
      LET k == Cardinality(EarlierInRow(p)) + 1
          seen == log[p].currSeen
      IN /\ k <= Len(executionOrder)
         /\ log[p].cellName = executionOrder[k]
         /\ DOMAIN seen = {executionOrder[j] : j \in 1..(k - 1)}
         /\ \A q \in EarlierInRow(p) :
              Get(seen, log[q].cellName) = log[q].result.value
         /\ \A c \in Columns \ {log[q].cellName : q \in EarlierInRow(p)} :
              Get(seen, c) = Undefined

(* In the second row a formula ran that had an undeclared column before it *)
(* in the order and another undeclared column after it.                    *)
C21_Witness ==
  /\ entry = "processRows"
  /\ \E p \in 1..Len(log) :
       /\ log[p].row = 1
       /\ \E c \in DOMAIN log[p].currSeen : c \notin Dependencies(log[p].cellName)
       /\ \E c \in Columns \ DOMAIN log[p].currSeen : c # log[p].cellName


(* The row objects of the running call: the rows pushed and, while a row   *)
(* is being evaluated or its evaluation failed, the current row.           *)
LiveRows ==
  IF entry # "processRows" \/ pc = "compile" THEN {}
  ELSE Range(rows) \cup (IF pc \in {"eval", "thrown"} /\ ~CircularRaised
                         THEN {newRowState} ELSE {})

CycleFound == error.name = "CircularDependencyError"

(* C23: reaching an in-progress column ends the call at once: the step     *)
(* that finds the cycle marks and appends nothing, nothing is visited,     *)
(* marked or appended afterwards within the call, and the caller has the   *)
(* error and neither an order nor rows.                                    *)
C23_FailFast ==
  /\ [](CycleFound => (pc = "thrown" /\ retOrder = <<>> /\ retRows = <<>>))
  /\ [][(pc = "compile" /\ CycleFound') =>
          UNCHANGED <<executionOrder, visited, visiting, stack>>]_vars
  /\ [][(CycleFound /\ callNo' = callNo) =>
          UNCHANGED <<executionOrder, visited, visiting, stack, si>>]_vars

(* The error was raised with part of the order built and a schema column   *)
(* not yet reached.                                                        *)
C23_Witness ==
  /\ CircularRaised
  /\ executionOrder # <<>>
  /\ Columns \ (visited \cup visiting) # {}
  /\ retOrder = <<>>


(* The calls of visit() of the run so far that marked a column             *)
(* in-progress.                                                            *)
Expansions(cellName) ==
  {p \in 1..Len(visitLog) :
     visitLog[p].cellName = cellName /\ visitLog[p].ending = "expanded"}

(* The calls of visit() made from one place: position idx of the           *)
(* dependency list of a column, or of the schema (from = "").              *)
CallsFrom(from, idx) ==
  {p \in 1..Len(visitLog) : visitLog[p].from = from /\ visitLog[p].idx = idx}

(* The number of entries of all dependency lists. *)
NumEdges == SumLen([c \in Columns |-> template[c].currRowDependencies], Columns)

(* C24: every call of compileExecutionOrder ends, by return or by the      *)
(* error; within a call a column is marked in-progress at most once, each  *)
(* entry of a dependency list is followed at most once (a name listed      *)
(* twice is two entries), each schema position is tried at most once, and  *)
(* so visit() is called at most (columns + list entries) times.            *)
C24_TerminatesBounded ==
  /\ (pc = "compile") ~> (pc # "compile")
  /\ [](/\ \A c \in Columns : Cardinality(Expansions(c)) <= 1
        /\ \A c \in Columns : \A k \in 1..Len(template[c].currRowDependencies) :
             Cardinality(CallsFrom(c, k)) <= 1
        /\ \A k \in 1..Len(cellSchema) : Cardinality(CallsFrom("", k)) <= 1
        /\ \A p \in 1..Len(visitLog) :
             LET v == visitLog[p]
             IN IF v.from = ""
                THEN v.idx \in 1..Len(cellSchema) /\ v.cellName = cellSchema[v.idx]
                ELSE /\ v.idx \in 1..Len(template[v.from].currRowDependencies)
                     /\ v.cellName = template[v.from].currRowDependencies[v.idx]
        /\ Len(visitLog) <= Len(cellSchema) + NumEdges)

(* compileExecutionOrder returned after a traversal that came to a done    *)
(* column again and to the same dependency twice from one list.            *)
C24_Witness ==
  /\ entry = "compileExecutionOrder"
  /\ pc = "returned"
  /\ \E p \in 1..Len(visitLog) :
       visitLog[p].from # "" /\ visitLog[p].ending = "skipped"
  /\ \E c \in Columns : \E d \in Columns :
       Cardinality(PositionsOf(template[c].currRowDependencies, d)) >= 2


(* processRows is past compilation and stays so in the step. *)
InRowPhase == entry = "processRows" /\ pc # "compile"

(* C25: the rows of a run are distinct records and the row being evaluated *)
(* is none of them; a pushed row keeps its place and its values through    *)
(* every later step of the run; and the formulas of row i+1 are handed     *)
(* row i as prevRow as that same record, not the record they fill.         *)
C25_RowsFreshAndFrozen ==
  /\ [](InRowPhase =>
          /\ \A j \in 1..Len(rows) : \A k \in 1..Len(rows) :
               rows[j] = rows[k] => j = k
          /\ pc = "eval" => newRowState \notin Range(rows)
          /\ \A e \in Range(log) :
               /\ e.context.currRow # e.context.prevRow
               /\ e.row >= 1 => e.context.prevRow = rows[e.row])
  /\ [][(InRowPhase /\ pc' # "compile") =>
          /\ Len(rows') >= Len(rows)
          /\ \A j \in 1..Len(rows) :
               /\ rows'[j] = rows[j]
               /\ heap'[rows[j]] = heap[rows[j]]]_vars
  /\ [][(pc = "rows" /\ pc' = "eval") =>
          (newRowState' \notin 1..Len(heap) /\ heap'[newRowState'] = EmptyRow)]_vars

(* Two rows with different values were returned, the second evaluated with *)
(* the first as its previous row.                                          *)
C25_Witness ==
  /\ RowsReturned
  /\ Len(retRows) = 2
  /\ heap[retRows[1]] # heap[retRows[2]]
  /\ \E e \in Range(log) : e.row = 1 /\ e.context.prevRow = retRows[1]


(* Every dependency of every column is declared before the column in the   *)
(* schema.                                                                 *)
DependenciesDeclaredEarlier ==
  \A c \in Columns : \A d \in Dependencies(c) :
    SchemaPosition(d) < SchemaPosition(c)

(* C26: when every dependency of every column comes earlier in the schema  *)
(* than the column (so also when there are no dependencies), the returned  *)
(* order is the schema order.                                              *)
C26_SchemaOrderKept ==
  (OrderReturned /\ DependenciesDeclaredEarlier) => ReturnedOrder = cellSchema

(* An order was returned for three columns whose dependencies, two or more *)
(* of them, all point backwards in the schema.                             *)
C26_Witness ==
  /\ OrderReturned
  /\ DependenciesDeclaredEarlier
  /\ Len(cellSchema) = 3
  /\ Cardinality({<<c, d>> \in Columns \X Columns : d \in Dependencies(c)}) >= 2


(* C27: when processRows returned m rows and is called again with the same *)
(* schema, template and inputs and a row count n <= m, it returns, and     *)
(* what it returns is the first n of those m rows; no formula is handed    *)
(* anything but the previous row, the current row and the inputs.          *)
C27_Prefix ==
  /\ (callNo = 2 /\ firstOutcome.pc = "returned") =>
       /\ pc # "thrown"
       /\ numRows <= Len(firstOutcome.rows)
       /\ pc = "returned" =>
            /\ Len(retRows) = numRows
            /\ RowValues(retRows) = SubSeq(firstOutcome.rows, 1, numRows)
  /\ \A e \in Range(log) : DOMAIN e.context = {"prevRow", "currRow", "inputs"}

(* After a call that returned two different rows, a call for one row       *)
(* returned.                                                               *)
C27_Witness ==
  /\ callNo = 2
  /\ pc = "returned"
  /\ numRows = 1
  /\ Len(retRows) = 1
  /\ Len(firstOutcome.rows) = 2
  /\ firstOutcome.rows[1] # firstOutcome.rows[2]


(* The invocations of the run made for a row and a column. *)
InvocationsOf(row, cellName) ==
  {p \in 1..Len(log) : log[p].row = row /\ log[p].cellName = cellName}

(* C28: when processRows has returned, it has invoked each column's        *)
(* formula exactly once for each of the numRows rows, numRows times the    *)
(* number of columns invocations in all, the rows one after the other and  *)
(* within a row the columns in the compiled order.                         *)
C28_InvocationCount ==
  RowsReturned =>
    /\ Len(log) = numRows * Len(cellSchema)
    /\ \A r \in 0..(numRows - 1) : \A c \in Columns :
         Cardinality(InvocationsOf(r, c)) = 1
    /\ \A p \in 1..Len(log) : \A q \in 1..Len(log) :
         p < q =>
           /\ log[p].row <= log[q].row
           /\ log[p].row = log[q].row =>
                \E j \in 1..Len(executionOrder) : \E k \in 1..Len(executionOrder) :
                  /\ j < k
                  /\ executionOrder[j] = log[p].cellName
                  /\ executionOrder[k] = log[q].cellName

(* Two rows of three columns were returned after six invocations, in an    *)
(* order other than the schema's.                                          *)
C28_Witness ==
  /\ RowsReturned
  /\ numRows = 2
  /\ Len(cellSchema) = 3
  /\ Len(log) = 6
  /\ executionOrder # cellSchema


(* The columns of the activation records of visit(), outermost first. *)
RecursionPath == [k \in 1..Len(stack) |-> stack[k].cellName]

(* C29: in every state of compileExecutionOrder no column is both          *)
(* in-progress and done, the in-progress columns are the columns of the    *)
(* recursion path (each once), the order holds the done columns, each      *)
(* once; and when an order is returned no column is in-progress and every  *)
(* schema column is done.                                                  *)
C29_MarkingInvariant ==
  /\ visiting \cap visited = {}
  /\ visiting = Range(RecursionPath)
  /\ Len(RecursionPath) = Cardinality(visiting)
  /\ Range(executionOrder) = visited
  /\ Len(executionOrder) = Cardinality(visited)
  /\ visiting \cup visited \subseteq Columns
  /\ OrderReturned => (visiting = {} /\ visited = Columns /\ stack = <<>>)

(* The traversal is two calls deep with one column already done. *)
C29_Witness ==
  /\ pc = "compile"
  /\ Len(stack) = 2
  /\ Cardinality(visited) = 1
  /\ Cardinality(visiting) = 2

=============================================================================
